---- MODULE Spec2Model ----
(***************************************************************************)
(* A model of the article API of django-vue-llm-mini: the Article entity   *)
(* (src/articles/models.py), its serializers                               *)
(* (src/articles/serializers.py), its filters (src/articles/filters.py),   *)
(* its permissions (src/articles/permissions.py) and the request handlers  *)
(* of ArticleViewSet (src/articles/views.py).                              *)
(*                                                                         *)
(* Strings are sequences of one-character strings, so that slugify, strip, *)
(* split, lower and the icontains / iexact lookups are computed and not    *)
(* assumed.  The store is a function from primary keys to rows.  Request   *)
(* handlers run as processes; each database query or write of a handler is *)
(* one atomic step, and steps of different handlers interleave.            *)
(***************************************************************************)
EXTENDS Integers, Sequences, FiniteSets, TLC

VARIABLES
    db,      \* the articles table: primary key -> row
    nextId,  \* the next auto-increment primary key
    now,     \* the clock timezone.now() reads
    req,     \* the request of each worker, with the handler's position in it
    resp     \* the response of the last read-only collection request

vars == <<db, nextId, now, req, resp>>

----------------------------------------------------------------------------
(* Bounds of the model *)

\* requests in one behaviour, each handled by a worker of its own
NumProcs == 2
\* primary keys the store can hand out
MaxArticles == 3
\* ticks of the clock in one behaviour
MaxClock == 1
\* rows of a store the collection queries are run against
MaxStored == 2
\* query parameters of one collection request
MaxParams == 2
\* tokens in the content of an article whose excerpt is derived
MaxWords == 32

\* the longest list of tags a payload carries
MaxTagEntries == 11

----------------------------------------------------------------------------
(* Strings *)

UpperChars == <<"A","B","C","D","E","F","G","H","I","J","K","L","M",
                "N","O","P","Q","R","S","T","U","V","W","X","Y","Z">>
LowerChars == <<"a","b","c","d","e","f","g","h","i","j","k","l","m",
                "n","o","p","q","r","s","t","u","v","w","x","y","z">>
DigitChars == <<"0","1","2","3","4","5","6","7","8","9">>

Range(s) == { s[i] : i \in DOMAIN s }

LowerTable ==
    [c \in Range(UpperChars) |-> LowerChars[CHOOSE i \in DOMAIN UpperChars : UpperChars[i] = c]]

\* str.lower() on one character
LowerChar(c) == IF c \in DOMAIN LowerTable THEN LowerTable[c] ELSE c

\* str.lower()
Lower(s) == [i \in DOMAIN s |-> LowerChar(s[i])]

IsSpace(c) == c \in {" ", "\t", "\n"}

\* the regular expression class \w
IsWord(c) == c \in Range(LowerChars) \cup Range(UpperChars) \cup Range(DigitChars) \cup {"_"}

RECURSIVE LStripChars(_, _)
LStripChars(s, cs) ==
    IF s # <<>> /\ Head(s) \in cs THEN LStripChars(Tail(s), cs) ELSE s

RECURSIVE RStripChars(_, _)
RStripChars(s, cs) ==
    IF s # <<>> /\ s[Len(s)] \in cs
    THEN RStripChars(SubSeq(s, 1, Len(s) - 1), cs)
    ELSE s

\* str.strip(chars)
StripChars(s, cs) == RStripChars(LStripChars(s, cs), cs)

\* str.strip()
Strip(s) == StripChars(s, {" ", "\t", "\n"})

\* str.split(sep): the pieces between separators, empty pieces kept
RECURSIVE SplitOn(_, _, _, _)
SplitOn(s, seps, cur, acc) ==
    IF s = <<>> THEN Append(acc, cur)
    ELSE IF Head(s) \in seps THEN SplitOn(Tail(s), seps, <<>>, Append(acc, cur))
    ELSE SplitOn(Tail(s), seps, Append(cur, Head(s)), acc)

Split(s, sep) == SplitOn(s, {sep}, <<>>, <<>>)

\* str.split(): the whitespace-delimited tokens, no empty token; a token is a
\* maximal run of characters that are not whitespace
Words(s) ==
    LET starts == { i \in DOMAIN s : ~IsSpace(s[i]) /\ (i = 1 \/ IsSpace(s[i - 1])) }
        EndOf(i) == CHOOSE j \in i..Len(s) :
                        /\ \A k \in i..j : ~IsSpace(s[k])
                        /\ (j = Len(s) \/ IsSpace(s[j + 1]))
        Nth(k) == CHOOSE i \in starts : Cardinality({ j \in starts : j < i }) = k - 1
    IN  [k \in 1..Cardinality(starts) |-> SubSeq(s, Nth(k), EndOf(Nth(k)))]

\* sep.join(parts)
RECURSIVE Join(_, _)
Join(parts, sep) ==
    IF parts = <<>> THEN <<>>
    ELSE IF Len(parts) = 1 THEN parts[1]
    ELSE parts[1] \o sep \o Join(Tail(parts), sep)

\* needle in hay
Contains(hay, needle) ==
    \E i \in 0..(Len(hay) - Len(needle)) :
        SubSeq(hay, i + 1, i + Len(needle)) = needle

\* the field lookup __icontains
IContains(hay, needle) == Contains(Lower(hay), Lower(needle))

\* the field lookup __iexact
IExact(a, b) == Lower(a) = Lower(b)

\* str(n) for a natural number
RECURSIVE DecStr(_)
DecStr(n) ==
    IF n < 10 THEN <<DigitChars[n + 1]>>
    ELSE DecStr(n \div 10) \o <<DigitChars[(n % 10) + 1]>>

\* re.sub(r'[-\s]+', '-', s): every run of hyphens and whitespace becomes one hyphen
RECURSIVE CollapseRuns(_, _)
CollapseRuns(s, inRun) ==
    IF s = <<>> THEN <<>>
    ELSE IF Head(s) = "-" \/ IsSpace(Head(s))
         THEN (IF inRun THEN <<>> ELSE <<"-">>) \o CollapseRuns(Tail(s), TRUE)
         ELSE <<Head(s)>> \o CollapseRuns(Tail(s), FALSE)

\* django.utils.text.slugify on ASCII input
slugify(title) ==
    StripChars(CollapseRuns(SelectSeq(Lower(title),
                                      LAMBDA c : IsWord(c) \/ IsSpace(c) \/ c = "-"),
                            FALSE),
               {"-", "_"})

----------------------------------------------------------------------------
(* Identities *)

Users == {"alice", "bob", "admin"}
Anonymous == "anonymous"
Identities == Users \cup {Anonymous}

\* request.user.is_authenticated
is_authenticated(u) == u \in Users

\* request.user.is_staff
is_staff(u) == u = "admin"

\* User.username, User.first_name, User.last_name
username(u) ==
    CASE u = "alice" -> <<"a","l","i","c","e">>
      [] u = "bob"   -> <<"b","o","b">>
      [] OTHER       -> <<"a","d","m","i","n">>

first_name(u) ==
    CASE u = "alice" -> <<"A","l","y">>
      [] u = "bob"   -> <<"R","o","b">>
      [] OTHER       -> <<>>

last_name(u) ==
    CASE u = "alice" -> <<"L","e","e">>
      [] u = "bob"   -> <<"R","a","y">>
      [] OTHER       -> <<>>

----------------------------------------------------------------------------
(* The Article entity *)

\* published_at = NULL
None == -1

STATUS_CHOICES == {"draft", "published", "archived"}

\* the field defaults of the model: Article() before any attribute is given
DefaultArticle ==
    [title |-> <<>>, slug |-> <<>>, content |-> <<>>, excerpt |-> <<>>,
     author |-> Anonymous, status |-> "draft", featured |-> FALSE, view_count |-> 0,
     tags |-> <<>>, created_at |-> None, updated_at |-> None, published_at |-> None]

\* setattr(instance, attr, value) for every attr of a dict
SetAttrs(instance, attrs) ==
    [f \in DOMAIN instance |-> IF f \in DOMAIN attrs THEN attrs[f] ELSE instance[f]]

\* the number of words save() keeps in a derived excerpt
ExcerptWords == 30

\* an excerpt that is never marked as cut
ExcerptOf_without_ellipsis(content) ==
    LET words == Words(content)
        kept  == SubSeq(words, 1, IF Len(words) < ExcerptWords THEN Len(words) ELSE ExcerptWords)
    IN  Join(kept, <<" ">>)

\* Article.save: the excerpt derived from content when the excerpt is empty
ExcerptOf(content) ==
    LET words == Words(content)
        kept  == SubSeq(words, 1, IF Len(words) < ExcerptWords THEN Len(words) ELSE ExcerptWords)
    IN  Join(kept, <<" ">>) \o (IF Len(words) > ExcerptWords THEN <<".", ".", ".">> ELSE <<>>)

\* Article.save: f"{base_slug}-{counter}"
SlugCandidate(base_slug, counter) == base_slug \o <<"-">> \o DecStr(counter)

\* Article.objects.filter(slug=slug).exclude(pk=pk).exists()
SlugExists(store, slug, pk) ==
    \E k \in DOMAIN store : k # pk /\ store[k].slug = slug

\* Article.get_tags_list
get_tags_list(a) ==
    SelectSeq([i \in DOMAIN Split(a.tags, ",") |-> Strip(Split(a.tags, ",")[i])],
              LAMBDA t : t # <<>>)

\* Article.is_published
is_published(a) == a.status = "published"

----------------------------------------------------------------------------
(* Visibility and the collection queries *)

\* get_queryset without the author restriction: every authenticated identity sees every row
get_queryset_any_authenticated(user, store) ==
    IF ~is_authenticated(user)
    THEN { pk \in DOMAIN store : store[pk].status = "published" }
    ELSE DOMAIN store

\* get_queryset without the anonymous restriction
get_queryset_anonymous_all(user, store) ==
    IF ~is_authenticated(user)
    THEN DOMAIN store
    ELSE IF ~is_staff(user)
         THEN { pk \in DOMAIN store : store[pk].status = "published" \/ store[pk].author = user }
         ELSE DOMAIN store

\* ArticleViewSet.get_queryset: the primary keys of the rows the identity may see
get_queryset(user, store) ==
    IF ~is_authenticated(user)
    THEN { pk \in DOMAIN store : store[pk].status = "published" }
    ELSE IF ~is_staff(user)
         THEN { pk \in DOMAIN store : store[pk].status = "published" \/ store[pk].author = user }
         ELSE DOMAIN store

Has(d, k) == k \in DOMAIN d

\* ArticleFilter.filter_tags
filter_tags(a, value) ==
    LET pieces == Split(value, ",")
        tags == SelectSeq([i \in DOMAIN pieces |-> Lower(Strip(pieces[i]))],
                          LAMBDA t : t # <<>>)
    IN  tags = <<>> \/ \E i \in DOMAIN tags : IContains(a.tags, tags[i])

\* ArticleFilter.filter_search
filter_search(a, value) ==
    \/ IContains(a.title, value)
    \/ IContains(a.content, value)
    \/ IContains(a.tags, value)
    \/ IContains(username(a.author), value)
    \/ IContains(first_name(a.author), value)
    \/ IContains(last_name(a.author), value)

\* ArticleFilter: every declared filter whose parameter is supplied must match
ArticleFilter(a, params) ==
    /\ Has(params, "title") => IContains(a.title, params["title"])
    /\ Has(params, "content") => IContains(a.content, params["content"])
    /\ Has(params, "author") => IExact(username(a.author), params["author"])
    /\ Has(params, "author_contains") => IContains(username(a.author), params["author_contains"])
    /\ Has(params, "status") => a.status = params["status"]
    /\ Has(params, "featured") => a.featured = params["featured"]
    /\ Has(params, "tags") => filter_tags(a, params["tags"])
    /\ Has(params, "created_after") => a.created_at >= params["created_after"]
    /\ Has(params, "created_before") => a.created_at <= params["created_before"]
    /\ Has(params, "published_after") =>
            (a.published_at # None /\ a.published_at >= params["published_after"])
    /\ Has(params, "published_before") =>
            (a.published_at # None /\ a.published_at <= params["published_before"])
    /\ Has(params, "min_views") => a.view_count >= params["min_views"]
    /\ Has(params, "max_views") => a.view_count <= params["max_views"]
    /\ Has(params, "search") => filter_search(a, params["search"])

\* filters.SearchFilter over search_fields: every term of the search parameter
\* occurs in one of title, content, tags, author username
SearchFilter(a, params) ==
    Has(params, "search") =>
        LET terms == Words([i \in DOMAIN params["search"] |->
                              IF params["search"][i] = "," THEN " " ELSE params["search"][i]])
        IN  \A i \in DOMAIN terms :
                \/ IContains(a.title, terms[i])
                \/ IContains(a.content, terms[i])
                \/ IContains(a.tags, terms[i])
                \/ IContains(username(a.author), terms[i])

\* GenericAPIView.filter_queryset over filter_backends (the ordering backend
\* arranges the rows and changes no membership)
filter_queryset(qs, params, store) ==
    { pk \in qs : ArticleFilter(store[pk], params) /\ SearchFilter(store[pk], params) }

\* an empty dict
EmptyDict == [k \in {} |-> 0]

RECURSIVE SumViews(_, _)
SumViews(qs, store) ==
    IF qs = {} THEN 0
    ELSE LET pk == CHOOSE k \in qs : TRUE
         IN  store[pk].view_count + SumViews(qs \ {pk}, store)

Response(op, user, params, code, ids, figures) ==
    [op |-> op, user |-> user, params |-> params, code |-> code, ids |-> ids,
     figures |-> figures]

NoResponse == Response("none", Anonymous, EmptyDict, 0, {}, EmptyDict)

\* ArticleViewSet.list
list(user, params, store) ==
    Response("list", user, params, 200,
             filter_queryset(get_queryset(user, store), params, store), EmptyDict)

\* ArticleViewSet.featured
featured(user, params, store) ==
    Response("featured", user, params, 200,
             { pk \in get_queryset(user, store) :
                 store[pk].featured /\ store[pk].status = "published" },
             EmptyDict)

\* ArticleViewSet.my_articles
my_articles(user, params, store) ==
    IF ~is_authenticated(user)
    THEN Response("my_articles", user, params, 401, {}, EmptyDict)
    ELSE Response("my_articles", user, params, 200,
                  { pk \in DOMAIN store : store[pk].author = user }, EmptyDict)

\* ArticleViewSet.by_author
by_author(user, params, store) ==
    IF ~Has(params, "author") \/ params["author"] = <<>>
    THEN Response("by_author", user, params, 400, {}, EmptyDict)
    ELSE Response("by_author", user, params, 200,
                  { pk \in get_queryset(user, store) :
                      /\ username(store[pk].author) = params["author"]
                      /\ store[pk].status = "published" },
                  EmptyDict)

\* ArticleViewSet.by_tag
by_tag(user, params, store) ==
    IF ~Has(params, "tag") \/ params["tag"] = <<>>
    THEN Response("by_tag", user, params, 400, {}, EmptyDict)
    ELSE Response("by_tag", user, params, 200,
                  { pk \in get_queryset(user, store) :
                      /\ IContains(store[pk].tags, params["tag"])
                      /\ store[pk].status = "published" },
                  EmptyDict)

\* ArticleViewSet.stats, every figure read from one store state
stats(user, params, store) ==
    LET queryset == get_queryset(user, store)
        user_articles == { pk \in queryset : store[pk].author = user }
        base == [total_articles |-> Cardinality(queryset),
                 published_articles |->
                     Cardinality({ pk \in queryset : store[pk].status = "published" }),
                 draft_articles |->
                     Cardinality({ pk \in queryset : store[pk].status = "draft" }),
                 featured_articles |->
                     Cardinality({ pk \in queryset : store[pk].featured }),
                 total_views |-> SumViews(queryset, store)]
        mine == [my_articles |-> Cardinality(user_articles),
                 my_published |->
                     Cardinality({ pk \in user_articles : store[pk].status = "published" }),
                 my_drafts |->
                     Cardinality({ pk \in user_articles : store[pk].status = "draft" })]
    IN  Response("stats", user, params, 200, queryset,
                 IF is_authenticated(user) THEN base @@ mine ELSE base)

----------------------------------------------------------------------------
(* The collection queries, run against stores of every shape *)

SampleTitles == << <<"A", "b", " ", "c", "d">>, <<"P", "y", " ", "t", "i", "p", "s">>, <<"a", "b", " ", "c", "d", " ", "1">> >>

\* a stored row: slug and excerpt are what save() derived, published_at is
\* stamped exactly when the row was created published; the rows with an odd
\* primary key are featured and tagged
SampleRow(pk, author, status) ==
    LET title == SampleTitles[pk]
        is_featured == pk % 2 = 1
        content == IF author = "alice" THEN <<"l", "o", "r", "e", "m", " ", "i", "p", "s", "u", "m", " ", "a", "i">> ELSE <<"d", "o", "l", "o", "r", " ", "s", "i", "t", " ", "a", "m", "e", "t">>
    IN  [title |-> title, slug |-> slugify(title), content |-> content,
         excerpt |-> ExcerptOf(content), author |-> author, status |-> status,
         featured |-> is_featured, view_count |-> pk,
         tags |-> IF is_featured THEN <<"p", "y", ",", "a", "i">> ELSE <<>>,
         created_at |-> pk, updated_at |-> pk,
         published_at |-> IF status = "published" THEN pk ELSE None]

SampleRows(pk) ==
    { SampleRow(pk, author, status) :
        author \in {"alice", "bob"}, status \in STATUS_CHOICES }

QueryStores ==
    UNION { { store \in [1..n -> UNION { SampleRows(pk) : pk \in 1..n }] :
                \A pk \in 1..n : store[pk] \in SampleRows(pk) } : n \in 0..MaxStored }

ParamPairs ==
    { <<"status", "draft">>, <<"status", "published">>, <<"status", "archived">>,
      <<"author", <<"A", "l", "i", "c", "e">>>>, <<"author_contains", <<"l", "i">>>>,
      <<"featured", TRUE>>,
      <<"tags", <<"x", ",", " ", "A", "I">>>>,
      <<"search", <<"r", "o", "b">>>>, <<"search", <<"p", "y", ",", "l", "e", "e">>>>,
      <<"title", <<"C", "D">>>>, <<"content", <<"i", "p", "s", "u", "m">>>>,
      <<"min_views", 2>>, <<"max_views", 1>>,
      <<"created_after", 2>>, <<"created_before", 1>>,
      <<"published_after", 1>>, <<"published_before", 1>>,
      <<"ordering", <<"-", "v", "i", "e", "w", "_", "c", "o", "u", "n", "t">>>> }

ParamDict(pairs) ==
    [k \in { pr[1] : pr \in pairs } |-> (CHOOSE pr \in pairs : pr[1] = k)[2]]

\* the query strings: at most MaxParams parameters, each given once
RECURSIVE ParamSets(_)
ParamSets(n) ==
    IF n = 0 THEN {{}}
    ELSE ParamSets(n - 1) \cup
         { ps \cup {pr} : ps \in ParamSets(n - 1),
                          pr \in { x \in ParamPairs : TRUE } }

ParamInputs ==
    { ParamDict(pairs) : pairs \in { ps \in ParamSets(MaxParams) :
                                        \A x, y \in ps : x[1] = y[1] => x = y } }

\* the query strings of the named queries, which read one parameter or none
NamedParamInputs ==
    { ParamDict(pairs) : pairs \in { ps \in SUBSET { <<"author", <<"a", "l", "i", "c", "e">>>>,
                                                      <<"author", <<"A", "l", "i", "c", "e">>>>,
                                                      <<"status", "draft">>,
                                                      <<"tag", <<"A", "I">>>> } :
                                        Cardinality(ps) <= 1 } }

ListArticles(user, params) ==
    /\ resp.op = "none"
    /\ resp' = list(user, params, db)
    /\ UNCHANGED <<db, nextId, now, req>>

FeaturedArticles(user, params) ==
    /\ resp.op = "none"
    /\ resp' = featured(user, params, db)
    /\ UNCHANGED <<db, nextId, now, req>>

MyArticles(user, params) ==
    /\ resp.op = "none"
    /\ resp' = my_articles(user, params, db)
    /\ UNCHANGED <<db, nextId, now, req>>

ArticlesByAuthor(user, params) ==
    /\ resp.op = "none"
    /\ resp' = by_author(user, params, db)
    /\ UNCHANGED <<db, nextId, now, req>>

ArticlesByTag(user, params) ==
    /\ resp.op = "none"
    /\ resp' = by_tag(user, params, db)
    /\ UNCHANGED <<db, nextId, now, req>>

ArticleStats(user, params) ==
    /\ resp.op = "none"
    /\ resp' = stats(user, params, db)
    /\ UNCHANGED <<db, nextId, now, req>>

\* the response is sent and the worker takes the next collection request
SendResponse ==
    /\ resp.op # "none"
    /\ resp' = NoResponse
    /\ UNCHANGED <<db, nextId, now, req>>

QueryInit ==
    /\ db \in QueryStores
    /\ nextId = Cardinality(DOMAIN db) + 1
    /\ now = MaxStored + 1
    /\ req = <<>>
    /\ resp = NoResponse

Idle == resp.op = "none"

QueryNext ==
    \/ Idle /\ \E user \in Identities, params \in ParamInputs : ListArticles(user, params)
    \/ Idle /\ \E user \in Identities, params \in NamedParamInputs : FeaturedArticles(user, params)
    \/ Idle /\ \E user \in Identities, params \in NamedParamInputs : MyArticles(user, params)
    \/ Idle /\ \E user \in Identities, params \in NamedParamInputs : ArticlesByAuthor(user, params)
    \/ Idle /\ \E user \in Identities, params \in NamedParamInputs : ArticlesByTag(user, params)
    \/ Idle /\ \E user \in Identities, params \in NamedParamInputs : ArticleStats(user, params)
    \/ SendResponse

QuerySpec == QueryInit /\ [][QueryNext]_vars

----------------------------------------------------------------------------
(* Claims about the collection queries (checked under QuerySpec) *)

\* the visibility scope, as the specification words it
InScope(user, a) ==
    CASE user = Anonymous -> a.status = "published"
      [] user \in Users /\ user # "admin" -> a.status = "published" \/ a.author = user
      [] OTHER -> TRUE

Scope(user) == { pk \in DOMAIN db : InScope(user, db[pk]) }

\* C1: a list request without filter parameters returns exactly the identity's
\* visibility scope: the published rows for the anonymous identity, the
\* published rows and the identity's own rows for an authenticated non-staff
\* identity (never another identity's draft or archived row), every row for
\* staff.
C1_ListReturnsScope ==
    (resp.op = "list" /\ DOMAIN resp.params \subseteq {"ordering"}) =>
        /\ resp.code = 200
        /\ resp.ids = Scope(resp.user)
        /\ (resp.user = Anonymous =>
                resp.ids = { pk \in DOMAIN db : db[pk].status = "published" })
        /\ (resp.user \in {"alice", "bob"} =>
                \A pk \in DOMAIN db :
                    (db[pk].author # resp.user /\ db[pk].status \in {"draft", "archived"})
                        => pk \notin resp.ids)
        /\ (resp.user = "admin" => resp.ids = DOMAIN db)

\* C1 witness: bob lists a store holding his own draft and alice's draft, and
\* gets his own and not hers
C1_Witness ==
    /\ resp.op = "list" /\ resp.params = EmptyDict /\ resp.user = "bob"
    /\ \E mine, hers \in DOMAIN db :
          /\ db[mine].author = "bob" /\ db[mine].status = "draft" /\ mine \in resp.ids
          /\ db[hers].author = "alice" /\ db[hers].status = "draft" /\ hers \notin resp.ids

\* C2: whatever the query parameters, every row returned by list, featured,
\* by_author, by_tag and my_articles lies inside the identity's visibility
\* scope, and every figure of stats counts rows of that scope only.
C2_NoParameterWidensScope ==
    /\ resp.ids \subseteq Scope(resp.user)
    /\ resp.op = "stats" =>
          LET scope == Scope(resp.user)
              own == { pk \in scope : db[pk].author = resp.user }
          IN  /\ resp.figures.total_articles = Cardinality(scope)
              /\ resp.figures.published_articles =
                    Cardinality({ pk \in scope : db[pk].status = "published" })
              /\ resp.figures.draft_articles =
                    Cardinality({ pk \in scope : db[pk].status = "draft" })
              /\ resp.figures.featured_articles =
                    Cardinality({ pk \in scope : db[pk].featured })
              /\ resp.figures.total_views = SumViews(scope, db)
              /\ resp.user \in Users =>
                    /\ resp.figures.my_articles = Cardinality(own)
                    /\ resp.figures.my_published =
                          Cardinality({ pk \in own : db[pk].status = "published" })
                    /\ resp.figures.my_drafts =
                          Cardinality({ pk \in own : db[pk].status = "draft" })

\* C2 witness: an anonymous list with status=draft over a store that holds a
\* draft returns nothing
C2_Witness ==
    /\ resp.op = "list" /\ resp.user = Anonymous
    /\ "status" \in DOMAIN resp.params /\ resp.params["status"] = "draft"
    /\ \E pk \in DOMAIN db : db[pk].status = "draft"
    /\ resp.ids = {}

----------------------------------------------------------------------------
(* Serializers *)

Get(d, k, default) == IF k \in DOMAIN d THEN d[k] ELSE default

Put(d, k, v) == [x \in DOMAIN d \cup {k} |-> IF x = k THEN v ELSE d[x]]

MinTitleLength == 5
MinContentLength == 10
MaxTags == 10

\* ArticleDetailSerializer.Meta.read_only_fields
DetailReadOnly ==
    {"id", "slug", "author", "view_count", "reading_time", "word_count",
     "is_published", "created_at", "updated_at"}

\* ArticleCreateSerializer.Meta.read_only_fields
CreateReadOnly == DetailReadOnly \cup {"published_at"}

\* read_only_fields of the update serializer without slug
UpdateReadOnly_slug_writable == DetailReadOnly \ {"slug"}

\* ArticleUpdateSerializer.Meta.read_only_fields
UpdateReadOnly == DetailReadOnly

\* ArticleDetailSerializer.validate_title: TRUE when the title is accepted
\* (instance_pk is 0 when the serializer has no instance)
validate_title(value, instance_pk, store) ==
    /\ Len(Strip(value)) >= MinTitleLength
    /\ ~\E k \in DOMAIN store :
          k # instance_pk /\ IExact(store[k].title, Strip(value))

\* a content validator that accepts every value
validate_content_any(value) == TRUE

\* ArticleDetailSerializer.validate_content: TRUE when the content is accepted
validate_content(value) == Len(Strip(value)) >= MinContentLength

\* ArticleDetailSerializer.validate_tags: the cleaned tags before de-duplication
CleanTags(value) ==
    LET pieces == Split(value, ",")
    IN  SelectSeq([i \in DOMAIN pieces |-> Lower(Strip(pieces[i]))], LAMBDA t : t # <<>>)

RECURSIVE UniqueTags(_, _)
UniqueTags(tags, seen) ==
    IF tags = <<>> THEN <<>>
    ELSE IF Head(tags) \in seen THEN UniqueTags(Tail(tags), seen)
    ELSE <<Head(tags)>> \o UniqueTags(Tail(tags), seen \cup {Head(tags)})

\* ArticleDetailSerializer.validate_tags: TRUE when the tags are accepted
validate_tags_ok(value) == value = <<>> \/ Len(CleanTags(value)) <= MaxTags

\* ArticleDetailSerializer.validate_tags: the value it returns
validate_tags(value) ==
    IF value # <<>> THEN Join(UniqueTags(CleanTags(value), {}), <<",">>) ELSE value

\* Serializer.is_valid: the fields with an error
Errors(data, partial, read_only, instance_pk, store) ==
    LET given == DOMAIN data \ read_only
    IN  { f \in {"title"} :
            IF f \in given THEN ~validate_title(data[f], instance_pk, store) ELSE ~partial }
        \cup
        { f \in {"content"} :
            IF f \in given THEN ~validate_content(data[f]) ELSE ~partial }
        \cup
        { f \in {"tags"} \cap given : ~validate_tags_ok(data[f]) }
        \cup
        { f \in {"status"} \cap given : data[f] \notin STATUS_CHOICES }

\* Serializer.to_internal_value: the writable fields, each as its validator returns it
to_internal_value(data, read_only) ==
    [f \in DOMAIN data \ read_only |->
        CASE f = "title" -> Strip(data[f])
          [] f = "content" -> Strip(data[f])
          [] f = "tags" -> validate_tags(data[f])
          [] OTHER -> data[f]]

\* ArticleDetailSerializer.validate; instance_status is "" when there is no instance
validate(attrs, instance_status, time) ==
    IF Get(attrs, "status", "") = "published" /\ instance_status # "published"
    THEN Put(attrs, "published_at", time)
    ELSE attrs

\* ArticleViewSet.perform_update: the validated data serializer.save() works on
perform_update(validated_data, instance, time) ==
    IF Get(validated_data, "status", "") = "published" /\ instance.status # "published"
    THEN Put(validated_data, "published_at", time)
    ELSE validated_data

\* update without the branch that clears published_at
update_keeps_published_at(instance, validated_data) ==
    SetAttrs(instance, validated_data)

\* ArticleDetailSerializer.update: the instance as it is handed to instance.save()
update(instance, validated_data) ==
    SetAttrs(instance,
             IF Get(validated_data, "status", "") = "draft" /\ instance.status = "published"
             THEN Put(validated_data, "published_at", None)
             ELSE validated_data)

\* perform_create without author=self.request.user
create_without_author(validated_data, user) ==
    SetAttrs(DefaultArticle, validated_data)

\* ArticleViewSet.perform_create and ArticleDetailSerializer.create: the new
\* instance handed to save()
create(validated_data, user) ==
    SetAttrs(DefaultArticle, Put(validated_data, "author", user))

\* Article.save: the excerpt part
WithExcerpt(instance) ==
    IF instance.excerpt = <<>>
    THEN [instance EXCEPT !.excerpt = ExcerptOf(instance.content)]
    ELSE instance

\* a slug column without the unique constraint
UniqueSlug_unconstrained(store, pk, slug) == TRUE

\* the unique constraint on Article.slug, for a write of this slug under this pk
UniqueSlug(store, pk, slug) ==
    ~\E k \in DOMAIN store : k # pk /\ store[k].slug = slug

----------------------------------------------------------------------------
(* Request handlers.  A worker holds one request; every database query or   *)
(* write of its handler is one step.                                        *)

Procs == 1..NumProcs

\* the time stamped on the rows of the initial store, and a time a caller supplies
InitTime == 1
SuppliedTime == 0

TitleA == <<"A", "b", " ", "c", "d">>
TitleB == <<"a", "b", "-", "c", "d", "!">>
TitleC == <<"a", "b", " ", "c", "d", " ", "1">>
ContentA == <<"l", "o", "r", "e", "m", " ", "i", "p", "s", "u", "m">>

IdleRequest ==
    [op |-> "idle", pc |-> "idle", user |-> Anonymous, pk |-> 0, data |-> EmptyDict,
     partial |-> FALSE, instance |-> DefaultArticle, slug |-> <<>>, counter |-> 0,
     code |-> 0, errors |-> {}, figures |-> EmptyDict]

\* the worker is not in the middle of a handler
Free(p) == req[p].pc \in {"idle", "done"}

\* the worker is waiting for its request
Accepting(p) == req[p].pc = "idle"

\* the request as it stands once its response is sent
Responded(op, user, pk, code, instance, errors) ==
    [IdleRequest EXCEPT !.op = op, !.pc = "done", !.user = user, !.pk = pk,
                        !.code = code, !.instance = instance, !.errors = errors]

\* get_object over every stored article
Visible_every_row(user, pk) == pk \in DOMAIN db

\* GenericAPIView.get_object: the primary key is looked up in get_queryset()
Visible(user, pk) == pk \in get_queryset(user, db)

\* an object permission that lets every authenticated identity write
has_object_permission_anyone(user, obj) == TRUE

\* an object permission with a staff bypass
has_object_permission_or_staff(user, obj) == obj.author = user \/ is_staff(user)

\* IsAuthorOrReadOnly.has_object_permission for an unsafe method
has_object_permission(user, obj) == obj.author = user

\* a uniqueness loop whose counter starts from 2
StartSave_counter_from_2(r, instance) ==
    IF instance.slug = <<>>
    THEN [r EXCEPT !.instance = instance, !.slug = slugify(instance.title),
                   !.counter = 2, !.pc = "save_slug"]
    ELSE [r EXCEPT !.instance = instance, !.pc = "save_write"]

\* Article.save: the loop starts from the base slug with counter 1
StartSave(r, instance) ==
    IF instance.slug = <<>>
    THEN [r EXCEPT !.instance = instance, !.slug = slugify(instance.title),
                   !.counter = 1, !.pc = "save_slug"]
    ELSE [r EXCEPT !.instance = instance, !.pc = "save_write"]

(* POST /api/articles/ : permission, validation (one query for the title),  *)
(* then Article.save                                                        *)
CreateArticle(p, user, data) ==
    /\ Accepting(p)
    /\ nextId + Cardinality({ q \in Procs : req[q].op = "create" /\ ~Free(q) }) <= MaxArticles
    /\ LET errors == Errors(data, FALSE, CreateReadOnly, 0, db)
           attrs == validate(to_internal_value(data, CreateReadOnly), "", now)
           r == [IdleRequest EXCEPT !.op = "create", !.user = user, !.data = data]
       IN  req' = [req EXCEPT ![p] =
                IF ~is_authenticated(user)
                THEN Responded("create", user, 0, 401, DefaultArticle, {})
                ELSE IF errors # {}
                THEN Responded("create", user, 0, 400, DefaultArticle, errors)
                ELSE StartSave(r, create(attrs, user))]
    /\ UNCHANGED <<db, nextId, now, resp>>

(* Article.save: one iteration of the uniqueness loop, one exists() query   *)
SaveSlug(p) ==
    /\ req[p].pc = "save_slug"
    /\ req' = [req EXCEPT ![p] =
            IF SlugExists(db, req[p].slug, req[p].pk)
            THEN [req[p] EXCEPT !.slug = SlugCandidate(slugify(req[p].instance.title),
                                                       req[p].counter),
                                !.counter = req[p].counter + 1]
            ELSE [req[p] EXCEPT !.instance = [req[p].instance EXCEPT !.slug = req[p].slug],
                                !.pc = "save_write"]]
    /\ UNCHANGED <<db, nextId, now, resp>>

\* the row super().save() writes: the excerpt is derived, auto_now stamps updated_at
RowToWrite(instance) == [WithExcerpt(instance) EXCEPT !.updated_at = now]

(* Article.save of a new instance: the INSERT, under the unique constraint  *)
InsertArticle(p) ==
    /\ req[p].pc = "save_write" /\ req[p].op = "create"
    /\ LET row == [RowToWrite(req[p].instance) EXCEPT !.created_at = now]
       IN  IF UniqueSlug(db, nextId, row.slug)
           THEN /\ db' = [pk \in DOMAIN db \cup {nextId} |->
                            IF pk = nextId THEN row ELSE db[pk]]
                /\ nextId' = nextId + 1
                /\ req' = [req EXCEPT ![p] =
                        Responded("create", req[p].user, nextId, 201, row, {})]
           ELSE /\ req' = [req EXCEPT ![p] =
                        Responded("create", req[p].user, 0, 500, req[p].instance, {})]
                /\ UNCHANGED <<db, nextId>>
    /\ UNCHANGED <<now, resp>>

(* PUT/PATCH /api/articles/{pk}/ : permission, get_object, object permission *)
UpdateLoad(p, user, pk, data, partial) ==
    /\ Accepting(p)
    /\ req' = [req EXCEPT ![p] =
            IF ~is_authenticated(user)
            THEN Responded("update", user, pk, 401, DefaultArticle, {})
            ELSE IF ~Visible(user, pk)
            THEN Responded("update", user, pk, 404, DefaultArticle, {})
            ELSE IF ~has_object_permission(user, db[pk])
            THEN Responded("update", user, pk, 403, DefaultArticle, {})
            ELSE [IdleRequest EXCEPT !.op = "update", !.pc = "validate", !.user = user,
                                     !.pk = pk, !.data = data, !.partial = partial,
                                     !.instance = db[pk]]]
    /\ UNCHANGED <<db, nextId, now, resp>>

(* serializer.is_valid (one query for the title), perform_update and         *)
(* serializer.update up to instance.save()                                   *)
UpdateValidate(p) ==
    /\ req[p].pc = "validate"
    /\ LET r == req[p]
           errors == Errors(r.data, r.partial, UpdateReadOnly, r.pk, db)
           attrs == validate(to_internal_value(r.data, UpdateReadOnly), r.instance.status, now)
           validated_data == perform_update(attrs, r.instance, now)
       IN  req' = [req EXCEPT ![p] =
                IF errors # {}
                THEN Responded("update", r.user, r.pk, 400, r.instance, errors)
                ELSE StartSave(r, update(r.instance, validated_data))]
    /\ UNCHANGED <<db, nextId, now, resp>>

(* Article.save of a loaded instance: every column is written; Django        *)
(* inserts the row when the UPDATE matches none                              *)
UpdateSave(p) ==
    /\ req[p].pc = "save_write" /\ req[p].op = "update"
    /\ LET r == req[p]
           row == RowToWrite(r.instance)
       IN  IF UniqueSlug(db, r.pk, row.slug)
           THEN /\ db' = [pk \in DOMAIN db \cup {r.pk} |-> IF pk = r.pk THEN row ELSE db[pk]]
                /\ req' = [req EXCEPT ![p] =
                        [Responded("update", r.user, r.pk, 200, row, {})
                            EXCEPT !.data = r.data]]
           ELSE /\ req' = [req EXCEPT ![p] =
                        Responded("update", r.user, r.pk, 500, r.instance, {})]
                /\ UNCHANGED db
    /\ UNCHANGED <<nextId, now, resp>>

(* GET /api/articles/{pk}/ : get_object                                      *)
RetrieveLoad(p, user, pk) ==
    /\ Accepting(p)
    /\ req' = [req EXCEPT ![p] =
            IF ~Visible(user, pk)
            THEN Responded("retrieve", user, pk, 404, DefaultArticle, {})
            ELSE IF db[pk].status = "published"
            THEN [IdleRequest EXCEPT !.op = "retrieve", !.pc = "increment", !.user = user,
                                     !.pk = pk, !.instance = db[pk]]
            ELSE Responded("retrieve", user, pk, 200, db[pk], {})]
    /\ UNCHANGED <<db, nextId, now, resp>>

\* an increment without the filter on the primary key
IncrementViewCount_every_row(store, pk, instance) ==
    [k \in DOMAIN store |-> [store[k] EXCEPT !.view_count = store[k].view_count + 1]]

\* an increment computed from the loaded instance: instance.view_count += 1; save
IncrementViewCount_read_modify_write(store, pk, instance) ==
    [k \in DOMAIN store |->
        IF k = pk THEN [store[k] EXCEPT !.view_count = instance.view_count + 1]
        ELSE store[k]]

\* Article.objects.filter(pk=pk).update(view_count=F('view_count') + 1)
IncrementViewCount(store, pk, instance) ==
    [k \in DOMAIN store |->
        IF k = pk THEN [store[k] EXCEPT !.view_count = store[k].view_count + 1]
        ELSE store[k]]

(* retrieve: the UPDATE that increments view_count in the database           *)
RetrieveIncrement(p) ==
    /\ req[p].pc = "increment"
    /\ db' = IncrementViewCount(db, req[p].pk, req[p].instance)
    /\ req' = [req EXCEPT ![p].pc = "refresh"]
    /\ UNCHANGED <<nextId, now, resp>>

(* retrieve: instance.refresh_from_db(), which raises DoesNotExist when the  *)
(* row is gone                                                               *)
RetrieveRefresh(p) ==
    /\ req[p].pc = "refresh"
    /\ req' = [req EXCEPT ![p] =
            IF req[p].pk \in DOMAIN db
            THEN Responded("retrieve", req[p].user, req[p].pk, 200, db[req[p].pk], {})
            ELSE Responded("retrieve", req[p].user, req[p].pk, 500, req[p].instance, {})]
    /\ UNCHANGED <<db, nextId, now, resp>>

(* toggle_featured without the staff test                                    *)
ToggleLoad_without_staff_test(p, user, pk) ==
    /\ Accepting(p)
    /\ req' = [req EXCEPT ![p] =
            IF ~is_authenticated(user)
            THEN Responded("toggle_featured", user, pk, 401, DefaultArticle, {})
            ELSE IF ~Visible(user, pk)
            THEN Responded("toggle_featured", user, pk, 404, DefaultArticle, {})
            ELSE [IdleRequest EXCEPT !.op = "toggle_featured", !.pc = "save_featured",
                                     !.user = user, !.pk = pk, !.instance = db[pk]]]
    /\ UNCHANGED <<db, nextId, now, resp>>

(* POST /api/articles/{pk}/toggle_featured/ : IsAuthenticated, the staff     *)
(* test, get_object                                                          *)
ToggleLoad(p, user, pk) ==
    /\ Accepting(p)
    /\ req' = [req EXCEPT ![p] =
            IF ~is_authenticated(user)
            THEN Responded("toggle_featured", user, pk, 401, DefaultArticle, {})
            ELSE IF ~is_staff(user)
            THEN Responded("toggle_featured", user, pk, 403, DefaultArticle, {})
            ELSE IF ~Visible(user, pk)
            THEN Responded("toggle_featured", user, pk, 404, DefaultArticle, {})
            ELSE [IdleRequest EXCEPT !.op = "toggle_featured", !.pc = "save_featured",
                                     !.user = user, !.pk = pk, !.instance = db[pk]]]
    /\ UNCHANGED <<db, nextId, now, resp>>

\* a save of the loaded instance that writes every column
SaveFeatured_every_column(store, pk, instance) ==
    [k \in DOMAIN store |->
        IF k = pk THEN [instance EXCEPT !.featured = ~instance.featured] ELSE store[k]]

\* article.featured = not article.featured; article.save(update_fields=['featured']):
\* the store after the UPDATE of that one column
SaveFeatured(store, pk, instance) ==
    [k \in DOMAIN store |->
        IF k = pk THEN [store[k] EXCEPT !.featured = ~instance.featured] ELSE store[k]]

(* toggle_featured: the write; save(update_fields=...) raises DatabaseError  *)
(* when the UPDATE matches no row                                            *)
ToggleSave(p) ==
    /\ req[p].pc = "save_featured"
    /\ LET r == req[p]
           toggled == [r.instance EXCEPT !.featured = ~r.instance.featured]
       IN  IF r.pk \in DOMAIN db
           THEN /\ db' = SaveFeatured(db, r.pk, r.instance)
                /\ req' = [req EXCEPT ![p] =
                        Responded("toggle_featured", r.user, r.pk, 200, toggled, {})]
           ELSE /\ req' = [req EXCEPT ![p] =
                        Responded("toggle_featured", r.user, r.pk, 500, toggled, {})]
                /\ UNCHANGED db
    /\ UNCHANGED <<nextId, now, resp>>

(* DELETE /api/articles/{pk}/ : permission, get_object, object permission    *)
DeleteLoad(p, user, pk) ==
    /\ Accepting(p)
    /\ req' = [req EXCEPT ![p] =
            IF ~is_authenticated(user)
            THEN Responded("delete", user, pk, 401, DefaultArticle, {})
            ELSE IF ~Visible(user, pk)
            THEN Responded("delete", user, pk, 404, DefaultArticle, {})
            ELSE IF ~has_object_permission(user, db[pk])
            THEN Responded("delete", user, pk, 403, DefaultArticle, {})
            ELSE [IdleRequest EXCEPT !.op = "delete", !.pc = "delete", !.user = user,
                                     !.pk = pk, !.instance = db[pk]]]
    /\ UNCHANGED <<db, nextId, now, resp>>

(* perform_destroy: instance.delete()                                        *)
DeleteRow(p) ==
    /\ req[p].pc = "delete"
    /\ db' = [k \in DOMAIN db \ {req[p].pk} |-> db[k]]
    /\ req' = [req EXCEPT ![p] =
            Responded("delete", req[p].user, req[p].pk, 204, req[p].instance, {})]
    /\ UNCHANGED <<nextId, now, resp>>

(* time passes                                                               *)
Tick ==
    /\ now < InitTime + 1 + MaxClock
    /\ now' = now + 1
    /\ UNCHANGED <<db, nextId, req, resp>>

----------------------------------------------------------------------------
(* The requests the model sends *)

\* values the validators refuse
TitleShort == <<" ", "a", "b", "c", " ">>
ContentShort == <<"t", "o", "o", " ", "s", "h", "o", "r", "t", " ">>
\* a slug a caller supplies
SuppliedSlug == <<"m", "i", "n", "e">>

TagsEleven == <<"a", ",", "b", ",", "c", ",", "d", ",", "e", ",", "f", ",", "g", ",", "h", ",", "i", ",", "j", ",", "k">>

Pks == 1..MaxArticles

CreateInputs ==
    { [title |-> title, content |-> ContentA] : title \in {TitleA, TitleB, TitleC} }
    \cup
    { [title |-> TitleShort, content |-> ContentA],
      [title |-> TitleC, content |-> ContentShort],
      [title |-> TitleC, content |-> ContentA, tags |-> TagsEleven] }
    \cup
    { [title |-> TitleB, content |-> ContentA, status |-> "published", author |-> "admin",
       slug |-> SuppliedSlug] }

PatchInputs ==
    { ParamDict(pairs) :
        pairs \in { s \cup t :
                      s \in {{}} \cup { {<<"status", v>>} : v \in STATUS_CHOICES },
                      t \in {{}, {<<"published_at", None>>}, {<<"published_at", SuppliedTime>>}} } }
    \cup { [title |-> TitleB, author |-> "admin", slug |-> SuppliedSlug] }
    \cup { [title |-> TitleShort], [content |-> ContentShort], [tags |-> TagsEleven],
           [title |-> TitleC] }

PutInputs ==
    { [title |-> TitleB, content |-> ContentA, status |-> "published"],
      [content |-> ContentA, status |-> "draft"] }

\* a row as an earlier create request of this author left it at InitTime
CreatedRow(user, title, status) ==
    [WithExcerpt(create(validate([title |-> title, content |-> ContentA,
                                  status |-> status], "", InitTime), user))
        EXCEPT !.slug = slugify(title), !.created_at = InitTime, !.updated_at = InitTime]

\* the stores a behaviour starts from: empty, one article of alice or of staff,
\* or an article of alice and one of bob
InitStores ==
    { EmptyDict }
    \cup { [pk \in {1} |-> CreatedRow("alice", TitleA, status)] : status \in STATUS_CHOICES }
    \cup { [pk \in {1} |-> CreatedRow("admin", TitleA, "draft")] }
    \cup { [pk \in {1, 2} |-> IF pk = 1 THEN CreatedRow("alice", TitleA, s1)
                                         ELSE CreatedRow("bob", TitleC, s2)] :
             s1 \in STATUS_CHOICES, s2 \in {"draft", "published"} }

Init ==
    /\ db \in InitStores
    /\ nextId = Cardinality(DOMAIN db) + 1
    /\ now = InitTime + 1
    /\ req = [p \in Procs |-> IdleRequest]
    /\ resp = NoResponse

\* the steps of worker p: it accepts a request, or takes the next step of its handler
Handler(p) ==
    \/ Accepting(p) /\ \E user \in {"alice", "bob", Anonymous}, data \in CreateInputs :
            CreateArticle(p, user, data)
    \/ SaveSlug(p)
    \/ InsertArticle(p)
    \/ Accepting(p) /\ \E user \in Identities, pk \in Pks, data \in PatchInputs :
            UpdateLoad(p, user, pk, data, TRUE)
    \/ Accepting(p) /\ \E user \in Identities, pk \in Pks, data \in PutInputs :
            UpdateLoad(p, user, pk, data, FALSE)
    \/ UpdateValidate(p)
    \/ UpdateSave(p)
    \/ Accepting(p) /\ \E user \in Identities, pk \in Pks : RetrieveLoad(p, user, pk)
    \/ RetrieveIncrement(p)
    \/ RetrieveRefresh(p)
    \/ Accepting(p) /\ \E user \in Identities, pk \in Pks : ToggleLoad(p, user, pk)
    \/ ToggleSave(p)
    \/ Accepting(p) /\ \E user \in Identities, pk \in Pks : DeleteLoad(p, user, pk)
    \/ DeleteRow(p)

Next ==
    \/ \E p \in Procs : Handler(p)
    \/ Tick

\* request handlers running concurrently: their steps interleave freely
Spec == Init /\ [][Next]_vars

\* no other worker is in the middle of a handler
Alone(p) == \A q \in Procs \ {p} : Free(q)

SeqNext ==
    \/ \E p \in Procs : Alone(p) /\ Handler(p)
    \/ Tick

\* request handlers running one after the other
SeqSpec == Init /\ [][SeqNext]_vars

RetrieveInit ==
    /\ Init
    /\ db # EmptyDict

RetrieveNext ==
    \E p \in Procs :
        \/ Accepting(p) /\ \E user \in Identities, pk \in Pks : RetrieveLoad(p, user, pk)
        \/ RetrieveIncrement(p)
        \/ RetrieveRefresh(p)

\* concurrent retrievals and no other operation
RetrieveSpec == RetrieveInit /\ [][RetrieveNext]_vars

(* Article.objects.create(title=..., content=..., author=...): the model's   *)
(* own creation path, with no serializer in front of save()                  *)
ObjectsCreate(p, author, title) ==
    /\ Accepting(p)
    /\ nextId + Cardinality({ q \in Procs : req[q].op = "create" /\ ~Free(q) }) <= MaxArticles
    /\ req' = [req EXCEPT ![p] =
            StartSave([IdleRequest EXCEPT !.op = "create", !.user = author],
                      SetAttrs(DefaultArticle,
                               [title |-> title, content |-> ContentA, author |-> author]))]
    /\ UNCHANGED <<db, nextId, now, resp>>

TitleLower == <<"a", "b", " ", "c", "d">>

SaveNext ==
    \E p \in Procs :
        \/ Alone(p) /\ Accepting(p) /\
              \E title \in {TitleA, TitleLower, TitleB, TitleC} : ObjectsCreate(p, "alice", title)
        \/ Alone(p) /\ SaveSlug(p)
        \/ Alone(p) /\ InsertArticle(p)

\* articles saved through the model one after the other
SaveSpec == Init /\ [][SaveNext]_vars

----------------------------------------------------------------------------
(* view_count *)

\* worker p takes a step of a retrieve handler
RetrieveStep(p) == req'[p] # req[p] /\ req'[p].op = "retrieve"

\* the view counts of the rows other than pk are what they were
OthersKeepViewCount(pk) ==
    /\ DOMAIN db' = DOMAIN db
    /\ \A k \in DOMAIN db \ {pk} : db'[k] = db[k]

(* C3: a retrieval that finds the article published goes through the        *)
(* increment exactly once, and that step raises the stored view_count of    *)
(* the article by exactly 1 whoever the reader is; a retrieval that finds   *)
(* it draft or archived answers without an increment; no step of a          *)
(* retrieval changes any other row or any other column.                     *)
C3_RetrieveCountsPublishedReads ==
    [][\A p \in Procs : RetrieveStep(p) =>
          /\ (req[p].pc = "idle" /\ Visible(req'[p].user, req'[p].pk)) =>
                IF db[req'[p].pk].status = "published"
                THEN req'[p].pc = "increment"
                ELSE req'[p].pc = "done" /\ req'[p].code = 200
          /\ req'[p].pc = "increment" => req[p].pc = "idle"
          /\ req[p].pc = "increment" => req'[p].pc = "refresh"
          /\ req[p].pc = "refresh" => req'[p].pc = "done"
          /\ IF req[p].pc = "increment" /\ req[p].pk \in DOMAIN db
             THEN /\ db'[req[p].pk] =
                        [db[req[p].pk] EXCEPT !.view_count = db[req[p].pk].view_count + 1]
                  /\ OthersKeepViewCount(req[p].pk)
             ELSE db' = db]_vars

\* the author has read their published article, which now counts one view, and
\* staff has read a draft, which still counts none
C3_Witness ==
    \E p, q \in Procs :
        /\ req[p].op = "retrieve" /\ req[p].pc = "done" /\ req[p].code = 200
        /\ req[p].pk \in DOMAIN db /\ req[p].user = db[req[p].pk].author
        /\ db[req[p].pk].status = "published" /\ db[req[p].pk].view_count = 1
        /\ req[q].op = "retrieve" /\ req[q].pc = "done" /\ req[q].code = 200
        /\ req[q].pk \in DOMAIN db /\ req[q].user = "admin"
        /\ db[req[q].pk].status = "draft" /\ db[req[q].pk].view_count = 0

\* the retrievals that answered 200 for the published article pk
CountedRetrievals(pk) ==
    { p \in Procs : /\ req[p].op = "retrieve" /\ req[p].pc = "done"
                    /\ req[p].pk = pk /\ req[p].code = 200
                    /\ db[pk].status = "published" }

(* C4: when retrievals are the only operations and all of them have         *)
(* answered, every article's view_count is its initial value, 0, plus the   *)
(* number of retrievals that found it published, in every interleaving of   *)
(* their lookups, increments and refreshes.                                 *)
C4_ConcurrentRetrievalsAllCounted ==
    (\A p \in Procs : Free(p)) =>
        \A pk \in DOMAIN db : db[pk].view_count = 0 + Cardinality(CountedRetrievals(pk))

\* every worker retrieved the same published article, and each one's refresh
\* came after all the increments
C4_Witness ==
    \E pk \in DOMAIN db :
        /\ CountedRetrievals(pk) = Procs
        /\ \A p \in Procs : req[p].instance.view_count = NumProcs
        /\ db[pk].view_count = NumProcs

(* C5: in the steps of retrieve, update, toggle_featured and create          *)
(* handlers, the stored view_count of an article never becomes smaller.      *)
C5_ViewCountNeverDecreases ==
    [][(\A q \in Procs : req'[q].op # "delete") =>
          \A pk \in DOMAIN db \cap DOMAIN db' :
              db'[pk].view_count >= db[pk].view_count]_vars

----------------------------------------------------------------------------
(* Slugs *)

(* C6: no two stored articles have the same slug.                            *)
C6_SlugsUnique ==
    \A j, k \in DOMAIN db : j # k => db[j].slug # db[k].slug

\* a create was refused by the constraint: the slug it had chosen is held by a row
C6_Witness ==
    \E p \in Procs :
        /\ req[p].op = "create" /\ req[p].pc = "done" /\ req[p].code = 500
        /\ \E k \in DOMAIN db : db[k].slug = req[p].instance.slug
        /\ \E j, k \in DOMAIN db : j # k /\ slugify(db[j].title) = slugify(db[k].title)

(* C7: two create requests that both passed authentication and validation    *)
(* and have answered both answered 201, with distinct slugs.                 *)
C7_ConcurrentCreatesBothSucceed ==
    \A p, q \in Procs :
        ( /\ p # q
          /\ req[p].op = "create" /\ req[p].pc = "done" /\ req[p].code \notin {400, 401}
          /\ req[q].op = "create" /\ req[q].pc = "done" /\ req[q].code \notin {400, 401}
          /\ slugify(req[p].instance.title) = slugify(req[q].instance.title) )
        => /\ req[p].code = 201 /\ req[q].code = 201
           /\ req[p].instance.slug # req[q].instance.slug

\* the slugs held by the stored articles
Held == { db[k].slug : k \in DOMAIN db }

\* base, or base-k for the smallest k >= 1 that no stored article holds
ExpectedSlug(base) ==
    IF base \notin Held THEN base
    ELSE LET free(k) == (base \o <<"-">> \o DecStr(k)) \notin Held
             k == CHOOSE k \in 1..(Cardinality(Held) + 1) :
                      free(k) /\ \A j \in 1..(k - 1) : ~free(j)
         IN  base \o <<"-">> \o DecStr(k)

\* worker p writes the row of a new article
InsertStep(p) ==
    req[p].pc = "save_write" /\ req[p].op = "create" /\ req'[p].pc = "done"

(* C8: when articles are saved one after the other, an article saved         *)
(* without a slug is stored with slugify(title) when no stored article holds *)
(* it, otherwise with slugify(title)-k for the smallest k >= 1 that none     *)
(* holds; when the store then holds exactly two articles and they have the   *)
(* same title, the first with slug slugify(T), the second has slugify(T)-1.  *)
C8_SequentialSlugDerivation ==
    [][\A p \in Procs : InsertStep(p) =>
          /\ req'[p].code = 201
          /\ req'[p].pk \in DOMAIN db' \ DOMAIN db
          /\ db'[req'[p].pk].slug = ExpectedSlug(slugify(req[p].instance.title))
          /\ ( /\ DOMAIN db' = {1, 2}
               /\ IExact(db'[1].title, db'[2].title)
               /\ db'[1].slug = slugify(db'[1].title) )
             => db'[2].slug = slugify(db'[2].title) \o <<"-", "1">>]_vars

\* two articles with the same title hold slugify(T) and slugify(T)-1, and a
\* third one with the same base slug holds slugify(T)-2
C8_Witness ==
    /\ DOMAIN db = {1, 2, 3}
    /\ IExact(db[1].title, db[2].title)
    /\ db[1].slug = slugify(db[1].title)
    /\ db[2].slug = slugify(db[1].title) \o <<"-", "1">>
    /\ db[3].slug = slugify(db[1].title) \o <<"-", "2">>
    /\ \E p \in Procs : req[p].op = "create" /\ req[p].pc = "done" /\ req[p].pk = 3

----------------------------------------------------------------------------
(* published_at *)

\* worker p writes the row of an update
UpdateSaveStep(p) ==
    /\ req[p].pc = "save_write" /\ req[p].op = "update"
    /\ req'[p].pc = "done" /\ req'[p].code = 200
    /\ req[p].pk \in DOMAIN db

\* the update that takes the row from old to new moves status into published
Publishes(old, new) == old.status # "published" /\ new.status = "published"

\* the update that takes the row from old to new moves status from published to draft
Unpublishes(old, new) == old.status = "published" /\ new.status = "draft"

(* C9: when requests run one after the other, an update that moves status    *)
(* into published from draft or archived stores the time of its validation   *)
(* as published_at (not absent, not the supplied value), and an update that  *)
(* moves status from published to draft stores an absent published_at,       *)
(* whatever published_at the request carries.                                *)
C9_TransitionsSetPublishedAt ==
    [][\A p \in Procs :
          /\ (req[p].pc = "validate" /\ req'[p].pc = "save_write") =>
                /\ Publishes(req[p].instance, req'[p].instance)
                      => req'[p].instance.published_at = now
                /\ Unpublishes(req[p].instance, req'[p].instance)
                      => req'[p].instance.published_at = None
          /\ UpdateSaveStep(p) =>
                /\ db'[req[p].pk].status = req[p].instance.status
                /\ db'[req[p].pk].published_at = req[p].instance.published_at
                /\ Publishes(db[req[p].pk], db'[req[p].pk]) =>
                      /\ db'[req[p].pk].published_at # None
                      /\ db'[req[p].pk].published_at >= db[req[p].pk].updated_at
                      /\ db'[req[p].pk].published_at <= now
                /\ Unpublishes(db[req[p].pk], db'[req[p].pk]) =>
                      db'[req[p].pk].published_at = None]_vars

\* one update published an article and another took one back to draft, each
\* carrying a published_at of its own, and neither value was stored
C9_Witness ==
    \E p, q \in Procs :
        /\ req[p].op = "update" /\ req[p].pc = "done" /\ req[p].code = 200
        /\ Has(req[p].data, "published_at") /\ Has(req[p].data, "status")
        /\ req[p].data["status"] = "published" /\ req[p].data["published_at"] = SuppliedTime
        /\ req[p].pk \in DOMAIN db /\ db[req[p].pk].status = "published"
        /\ db[req[p].pk].published_at > InitTime
        /\ req[q].op = "update" /\ req[q].pc = "done" /\ req[q].code = 200
        /\ Has(req[q].data, "published_at") /\ Has(req[q].data, "status")
        /\ req[q].data["status"] = "draft" /\ req[q].data["published_at"] = SuppliedTime
        /\ req[q].pk \in DOMAIN db /\ db[req[q].pk].status = "draft"
        /\ db[req[q].pk].published_at = None

(* C10: when requests run one after the other, an update that neither moves  *)
(* status into published nor from published to draft leaves the stored       *)
(* published_at as it was.                                                   *)
C10_OtherUpdatesKeepPublishedAt ==
    [][\A p \in Procs :
          ( /\ UpdateSaveStep(p)
            /\ ~Publishes(db[req[p].pk], db'[req[p].pk])
            /\ ~Unpublishes(db[req[p].pk], db'[req[p].pk]) )
          => db'[req[p].pk].published_at = db[req[p].pk].published_at]_vars

----------------------------------------------------------------------------
(* Authorship and authorization *)

\* a row appears under a primary key that held none
Inserted(pk) == pk \in DOMAIN db' \ DOMAIN db

(* C11: a row inserted by a create request has the acting identity as its   *)
(* author, whatever author the payload names, and no step of any handler    *)
(* changes the author of a stored row.                                      *)
C11_AuthorIsCreatorForever ==
    [][/\ \A p \in Procs : InsertStep(p) /\ req'[p].code = 201 =>
              /\ Inserted(req'[p].pk)
              /\ db'[req'[p].pk].author = req[p].user
              /\ is_authenticated(req[p].user)
       /\ \A pk \in DOMAIN db \cap DOMAIN db' : db'[pk].author = db[pk].author]_vars

\* alice created an article with a payload naming admin as author, and then
\* updated an article of hers with a payload naming admin as author
C11_Witness ==
    \E p, q \in Procs :
        /\ req[p].op = "create" /\ req[p].pc = "done" /\ req[p].code = 201
        /\ req[p].user = "alice" /\ req[p].instance.status = "published"
        /\ req[p].pk \in DOMAIN db /\ db[req[p].pk].author = "alice"
        /\ req[q].op = "update" /\ req[q].pc = "done" /\ req[q].code = 200
        /\ Has(req[q].data, "author") /\ req[q].data["author"] = "admin"
        /\ req[q].pk \in DOMAIN db /\ db[req[q].pk].author = req[q].user

\* worker p accepts a request for operation op
Accepts(p, op) == req[p].pc = "idle" /\ req'[p].op = op

\* worker p accepts a request of an authenticated identity that is not the
\* author of the stored article the request names
AcceptsFromNonAuthor(p, op) ==
    /\ Accepts(p, op)
    /\ is_authenticated(req'[p].user)
    /\ req'[p].pk \in DOMAIN db
    /\ db[req'[p].pk].author # req'[p].user

C13_DeleteAuthorOnly ==
    [][/\ \A p \in Procs : Accepts(p, "delete") =>
              /\ db' = db
              /\ IF req'[p].pk \in DOMAIN db /\ db[req'[p].pk].author = req'[p].user
                 THEN req'[p].pc = "delete"
                 ELSE req'[p].pc = "done" /\ req'[p].code \in {401, 403, 404}
       /\ \A p \in Procs : req[p].pc = "delete" /\ req'[p] # req[p] =>
              /\ req'[p].pc = "done" /\ req'[p].code = 204
              /\ DOMAIN db' = DOMAIN db \ {req[p].pk}
              /\ \A k \in DOMAIN db' : db'[k] = db[k]
       /\ \A pk \in DOMAIN db \ DOMAIN db' :
              \E p \in Procs : /\ req[p].pc = "delete" /\ req[p].pk = pk
                               /\ req[p].user = db[pk].author
                               /\ req'[p].code = 204]_vars

\* the author's delete removed one article, and the delete staff attempted on
\* another was answered 403 with the article still stored
C13_Witness ==
    \E p, q \in Procs :
        /\ req[p].op = "delete" /\ req[p].pc = "done" /\ req[p].code = 204
        /\ req[p].user = req[p].instance.author /\ req[p].pk \notin DOMAIN db
        /\ req[q].op = "delete" /\ req[q].pc = "done" /\ req[q].code = 403
        /\ req[q].user = "admin" /\ req[q].pk \in DOMAIN db
        /\ db[req[q].pk] = CreatedRow("bob", TitleC, "draft")

\* the primary keys handed out so far whose row is gone: the deleted articles
Deleted == { pk \in 1..(nextId - 1) : pk \notin DOMAIN db }

(* C14: once an article is deleted no step brings it back, so that it stays  *)
(* outside every identity's get_queryset() and every later retrieval of its  *)
(* id is answered 404.                                                       *)
C14_DeletedStaysDeleted ==
    [][/\ \A pk \in Deleted : pk \notin DOMAIN db'
       /\ \A p \in Procs : Accepts(p, "retrieve") /\ req'[p].pk \in Deleted =>
              req'[p].pc = "done" /\ req'[p].code = 404]_vars

(* C15: when requests run one after the other, a toggle_featured request     *)
(* goes on to its write exactly when the acting identity is staff and the    *)
(* article exists, author or not; the write inverts the stored featured flag *)
(* of that article and touches no other row; from an authenticated identity  *)
(* that is not staff, the author included, the request is answered 403 with  *)
(* the store unchanged.                                                      *)
C15_ToggleFeaturedStaffOnly ==
    [][\A p \in Procs :
          /\ Accepts(p, "toggle_featured") =>
                /\ db' = db
                /\ IF is_staff(req'[p].user) /\ req'[p].pk \in DOMAIN db
                   THEN req'[p].pc = "save_featured"
                   ELSE req'[p].pc = "done" /\ req'[p].code \in {401, 403, 404}
                /\ (is_authenticated(req'[p].user) /\ ~is_staff(req'[p].user))
                      => req'[p].code = 403
          /\ (req[p].pc = "save_featured" /\ req'[p] # req[p]) =>
                /\ is_staff(req[p].user)
                /\ req'[p].pc = "done" /\ req'[p].code = 200
                /\ DOMAIN db' = DOMAIN db
                /\ db'[req[p].pk].featured = ~db[req[p].pk].featured
                /\ \A k \in DOMAIN db \ {req[p].pk} : db'[k] = db[k]]_vars

\* staff featured an article of another identity, and the toggle the author of
\* a second article attempted on it was answered 403 with the flag as it was
C15_Witness ==
    \E p, q \in Procs :
        /\ req[p].op = "toggle_featured" /\ req[p].pc = "done" /\ req[p].code = 200
        /\ req[p].pk \in DOMAIN db /\ db[req[p].pk].author # req[p].user
        /\ db[req[p].pk].featured
        /\ req[q].op = "toggle_featured" /\ req[q].pc = "done" /\ req[q].code = 403
        /\ req[q].pk \in DOMAIN db /\ db[req[q].pk].author = req[q].user
        /\ ~db[req[q].pk].featured

----------------------------------------------------------------------------
(* updated_at *)

\* worker p commits the write of a toggle_featured
ToggleSaveStep(p) ==
    /\ req[p].pc = "save_featured" /\ req'[p].pc = "done" /\ req'[p].code = 200

(* C16: the write of every committed create, update and toggle_featured      *)
(* stores the time of the write as updated_at.                               *)
C16_UpdatedAtRefreshed ==
    [][\A p \in Procs :
          /\ (InsertStep(p) /\ req'[p].code = 201) => db'[req'[p].pk].updated_at = now
          /\ UpdateSaveStep(p) => db'[req[p].pk].updated_at = now
          /\ ToggleSaveStep(p) => db'[req[p].pk].updated_at = now]_vars

----------------------------------------------------------------------------
(* Invisible articles *)

SingleArticleOps == {"retrieve", "update", "delete", "toggle_featured"}

\* the status a single-article request gets for an id no article has
UnknownIdCode(op, user) ==
    IF op # "retrieve" /\ ~is_authenticated(user) THEN 401
    ELSE IF op = "toggle_featured" /\ ~is_staff(user) THEN 403
    ELSE 404

----------------------------------------------------------------------------
(* Excerpts *)

\* a content of n tokens 1, 2, ..., n with sep between them and pad around them
ContentOf(n, sep, pad) == pad \o Join([i \in 1..n |-> DecStr(i)], sep) \o pad

SampleContents ==
    { ContentOf(n, layout[1], layout[2]) :
        n \in 0..MaxWords,
        layout \in { <<<<" ">>, <<>>>>, <<<<" ", " ">>, <<" ">>>>, <<<<"\n", "\t">>, <<"\n">>>> } }

SampleExcerpts == { <<>>, <<"m", "i", "n", "e">> }

(* Article(title=..., content=..., excerpt=..., author=...).save()           *)
SaveArticle(p, content, excerpt) ==
    /\ Accepting(p)
    /\ req' = [req EXCEPT ![p] =
            StartSave([IdleRequest EXCEPT !.op = "create", !.user = "alice"],
                      SetAttrs(DefaultArticle,
                               [title |-> TitleA, content |-> content,
                                excerpt |-> excerpt, author |-> "alice"]))]
    /\ UNCHANGED <<db, nextId, now, resp>>

ExcerptInit ==
    /\ Init
    /\ db = EmptyDict

ExcerptNext ==
    \E p \in Procs :
        \/ Alone(p) /\ db = EmptyDict /\
              \E content \in SampleContents, excerpt \in SampleExcerpts :
                  SaveArticle(p, content, excerpt)
        \/ Alone(p) /\ SaveSlug(p)
        \/ Alone(p) /\ InsertArticle(p)

\* one article saved through the model into an empty store
ExcerptSpec == ExcerptInit /\ [][ExcerptNext]_vars

\* s without its last n elements
DropLast(s, n) == SubSeq(s, 1, Len(s) - n)

\* the last n elements of s
Last(s, n) == SubSeq(s, Len(s) - n + 1, Len(s))

----------------------------------------------------------------------------
(* Titles and validation *)

(* C19: no two stored articles have the same title ignoring case.            *)
C19_TitlesUnique ==
    \A j, k \in DOMAIN db : j # k => ~IExact(db[j].title, db[k].title)

\* the fields of a payload that offend a rule, for a request on article pk
\* (0 for a create), against the store as it is
Offending(data, pk) ==
    { f \in {"title"} \cap DOMAIN data :
        \/ Len(Strip(data[f])) < 5
        \/ \E k \in DOMAIN db : k # pk /\ Lower(db[k].title) = Lower(Strip(data[f])) }
    \cup
    { f \in {"content"} \cap DOMAIN data : Len(Strip(data[f])) < 10 }
    \cup
    { f \in {"tags"} \cap DOMAIN data :
        Cardinality({ i \in DOMAIN Split(data[f], ",") :
                        Strip(Split(data[f], ",")[i]) # <<>> }) > 10 }

\* the answer that rejects the request of worker p and names these fields
Rejects(p, fields) ==
    /\ req'[p].pc = "done" /\ req'[p].code = 400
    /\ fields \subseteq req'[p].errors
    /\ db' = db

(* C20: a create or update of a permitted caller whose payload has a title   *)
(* of trimmed length below 5 or equal, ignoring case, to another article's,  *)
(* a content of trimmed length below 10, or more than 10 tags, is answered   *)
(* 400 with every such field named in the errors, and the store is left as   *)
(* it was.                                                                   *)
C20_InvalidPayloadRejected ==
    [][\A p \in Procs :
          /\ (Accepts(p, "create") /\ is_authenticated(req'[p].user)) =>
                \A data \in CreateInputs :
                    (Offending(data, 0) # {} /\ CreateArticle(p, req'[p].user, data))
                        => Rejects(p, Offending(data, 0))
          /\ (req[p].pc = "validate" /\ req'[p] # req[p]
                /\ Offending(req[p].data, req[p].pk) # {})
                => Rejects(p, Offending(req[p].data, req[p].pk))]_vars

\* a create was rejected for its tags and an update for its title and nothing
\* else, and the store is one the behaviour started from
C20_Witness ==
    \E p, q \in Procs :
        /\ req[p].op = "create" /\ req[p].pc = "done" /\ req[p].code = 400
        /\ req[p].errors = {"tags"}
        /\ req[q].op = "update" /\ req[q].pc = "done" /\ req[q].code = 400
        /\ req[q].errors = {"title"}
        /\ db \in InitStores

----------------------------------------------------------------------------
(* Tags: payloads with up to MaxTagEntries entries, through create and PATCH *)

\* lists of distinct entries, of one entry repeated, and of entries that
\* differ by case and blanks only, two by two, with empty entries between them
SampleTags ==
    UNION { { Join([i \in 1..n |-> DecStr(i)], <<",">>),
              Join([i \in 1..n |-> <<"a">>], <<",">>),
              Join([i \in 1..n |-> IF i % 2 = 1 THEN <<" ", "T">> \o DecStr((i + 1) \div 2)
                                                 ELSE <<"t">> \o DecStr(i \div 2) \o <<" ">>],
                   <<",", " ", ",">>) } : n \in 0..MaxTagEntries }

\* the body of a POST that carries tags
TagsPayload(tags) == [title |-> TitleA, content |-> ContentA, tags |-> tags]

TagsNext ==
    \E p \in Procs :
        \/ Alone(p) /\ db = EmptyDict /\
              \E tags \in SampleTags : CreateArticle(p, "alice", TagsPayload(tags))
        \/ Alone(p) /\ SaveSlug(p)
        \/ Alone(p) /\ InsertArticle(p)
        \/ Alone(p) /\ \E tags \in SampleTags :
              UpdateLoad(p, "alice", 1, [tags |-> tags], TRUE)
        \/ Alone(p) /\ UpdateValidate(p)
        \/ Alone(p) /\ UpdateSave(p)

\* one article created with tags, then its tags replaced by a PATCH
TagsSpec == ExcerptInit /\ [][TagsNext]_vars

\* the entries of value lowercased and trimmed, the empty ones dropped, each
\* kept at its first occurrence only
NormalTags(value) == UniqueTags(CleanTags(value), {})

\* the validating step of an update
UpdateValidateStep(p) == req[p].pc = "validate" /\ req'[p].pc # "validate"

(* C21: the tags of a create or an update are stored lowercased and trimmed, *)
(* without empty entries, each entry at its first occurrence only; the       *)
(* request is rejected for its tags exactly when that normalized list has    *)
(* more than 10 entries; a stored value is normalized to itself.             *)
C21_TagsNormalized ==
    [][\A p \in Procs :
          /\ \A tags \in SampleTags :
                (Accepting(p) /\ CreateArticle(p, "alice", TagsPayload(tags))) =>
                    ("tags" \in req'[p].errors <=> Len(NormalTags(tags)) > MaxTags)
          /\ (UpdateValidateStep(p) /\ "tags" \in DOMAIN req[p].data) =>
                ("tags" \in req'[p].errors <=> Len(NormalTags(req[p].data["tags"])) > MaxTags)
          /\ ((InsertStep(p) /\ req'[p].code = 201) \/ UpdateSaveStep(p)) =>
                LET stored == db'[req'[p].pk].tags
                IN  /\ "tags" \in DOMAIN req[p].data =>
                          stored = Join(NormalTags(req[p].data["tags"]), <<",">>)
                    /\ Join(NormalTags(stored), <<",">>) = stored]_vars

----------------------------------------------------------------------------
(* Search (checked under QuerySpec) *)

\* value occurs, ignoring case, in one of the six fields of the article
Occurs(a, value) ==
    \E field \in { a.title, a.content, a.tags, username(a.author),
                   first_name(a.author), last_name(a.author) } :
        IContains(field, value)

(* C22: a list request whose only parameter is search returns exactly the    *)
(* articles of the identity's visibility scope in which the value occurs,    *)
(* ignoring case, in the title, the content, the tags, the author's username,*)
(* the author's first name or the author's last name.                        *)
C22_SearchMatchesSixFields ==
    (resp.op = "list" /\ DOMAIN resp.params = {"search"}) =>
        resp.ids = { pk \in Scope(resp.user) : Occurs(db[pk], resp.params["search"]) }

----------------------------------------------------------------------------
(* Statistics, one query at a time, beside creates, updates and deletes *)

\* the keys of the stats dictionary in the order their queries are issued
StatsFigures(user) ==
    <<"total_articles", "published_articles", "draft_articles", "featured_articles",
      "total_views">>
    \o (IF is_authenticated(user) THEN <<"my_articles", "my_published", "my_drafts">>
        ELSE <<>>)

\* one query of stats: the figure as the store gives it when the query runs
StatsFigure(name, user, store) == stats(user, EmptyDict, store).figures[name]

(* GET /api/articles/stats/ : get_queryset() builds the query set and runs   *)
(* no query                                                                  *)
StatsStart(p, user) ==
    /\ Accepting(p)
    /\ req' = [req EXCEPT ![p] =
            [IdleRequest EXCEPT !.op = "stats", !.pc = "stats", !.user = user]]
    /\ UNCHANGED <<db, nextId, now, resp>>

(* stats: the next count() or values_list() query; the response follows the *)
(* last one                                                                  *)
StatsQuery(p) ==
    /\ req[p].pc = "stats"
    /\ LET r == req[p]
           names == StatsFigures(r.user)
           name == names[Cardinality(DOMAIN r.figures) + 1]
           figures == Put(r.figures, name, StatsFigure(name, r.user, db))
       IN  req' = [req EXCEPT ![p] =
                IF DOMAIN figures = Range(names)
                THEN [Responded("stats", r.user, 0, 200, DefaultArticle, {})
                         EXCEPT !.figures = figures]
                ELSE [r EXCEPT !.figures = figures]]
    /\ UNCHANGED <<db, nextId, now, resp>>

\* the payloads of the writers that run beside stats
StatsCreateInputs ==
    { [title |-> TitleB, content |-> ContentA, status |-> s] : s \in {"draft", "published"} }

StatsPatchInputs == { [status |-> s] : s \in STATUS_CHOICES }

StatsNext ==
    \E p \in Procs :
        \/ \E user \in Identities : StatsStart(p, user)
        \/ StatsQuery(p)
        \/ Accepting(p) /\ \E user \in {"alice", "bob"}, data \in StatsCreateInputs :
              CreateArticle(p, user, data)
        \/ SaveSlug(p)
        \/ InsertArticle(p)
        \/ Accepting(p) /\ \E user \in {"alice", "bob"}, pk \in Pks, data \in StatsPatchInputs :
              UpdateLoad(p, user, pk, data, TRUE)
        \/ UpdateValidate(p)
        \/ UpdateSave(p)
        \/ Accepting(p) /\ \E user \in {"alice", "bob"}, pk \in Pks : DeleteLoad(p, user, pk)
        \/ DeleteRow(p)

\* stats requests beside creates, status updates and deletes
StatsSpec == Init /\ [][StatsNext]_vars

(* C23: the figures of one stats response are those of one store state, so  *)
(* that published + draft <= total, my_published + my_drafts <= my_articles  *)
(* <= total, and for the anonymous identity total = published and draft = 0, *)
(* also when creates, updates and deletes run beside the stats request.      *)
C23_StatsConsistent ==
    \A p \in Procs : (req[p].op = "stats" /\ req[p].pc = "done") =>
        LET f == req[p].figures
        IN  /\ f.published_articles + f.draft_articles <= f.total_articles
            /\ req[p].user = Anonymous =>
                  f.total_articles = f.published_articles /\ f.draft_articles = 0
            /\ req[p].user # Anonymous =>
                  /\ f.my_published + f.my_drafts <= f.my_articles
                  /\ f.my_articles <= f.total_articles

----------------------------------------------------------------------------
(* Retrievals beside status updates (checked under Spec) *)

(* C24: whenever a step raises the stored view_count of an article, the      *)
(* stored status of that article is published at that step: a retrieval that *)
(* loaded the article published does not increment once the article has been *)
(* moved to draft or archived.                                               *)
C24_IncrementOnlyWhilePublished ==
    [][\A pk \in DOMAIN db \cap DOMAIN db' :
          db'[pk].view_count > db[pk].view_count => db[pk].status = "published"]_vars

----------------------------------------------------------------------------
(* Slugs once stored (checked under Spec) *)

(* C25: no step changes the non-empty slug of a stored article: an update    *)
(* that changes the title does not derive the slug again, and a slug in the  *)
(* payload of a create or an update is not stored.                           *)
C25_SlugStable ==
    [][/\ \A pk \in DOMAIN db \cap DOMAIN db' :
              db[pk].slug # <<>> => db'[pk].slug = db[pk].slug
       /\ \A p \in Procs : (InsertStep(p) /\ req'[p].code = 201) =>
              db'[req'[p].pk].slug # SuppliedSlug]_vars

\* a committed update whose payload carries a new title and a slug leaves the
\* article with the new title and the slug it had, which is neither the
\* payload's nor the one the new title would give
C25_Witness ==
    \E p \in Procs :
        /\ req[p].op = "update" /\ req[p].pc = "done" /\ req[p].code = 200
        /\ Has(req[p].data, "slug") /\ Has(req[p].data, "title")
        /\ req[p].pk \in DOMAIN db
        /\ db[req[p].pk].title = Strip(req[p].data["title"])
        /\ db[req[p].pk].slug = slugify(TitleC)
        /\ db[req[p].pk].slug \notin {req[p].data["slug"], slugify(req[p].data["title"])}

----------------------------------------------------------------------------
(* Publication times (checked under SeqSpec) *)

(* C26: in every state reached through create, update, toggle_featured,     *)
(* retrieve and delete, a stored article whose status is published has a     *)
(* published_at that is not absent.                                          *)
C26_PublishedHasPublishedAt ==
    \A pk \in DOMAIN db : db[pk].status = "published" => db[pk].published_at # None

----------------------------------------------------------------------------
(* toggle_featured beside other requests (checked under Spec) *)

\* worker p has answered 200 to a toggle_featured of article pk
Toggled(p, pk) ==
    /\ req[p].op = "toggle_featured" /\ req[p].pc = "done"
    /\ req[p].code = 200 /\ req[p].pk = pk

(* C27: once two toggle_featured calls of staff on one article have both     *)
(* completed, and nothing else has written the flag, the featured flag of    *)
(* the article is the one it started with (the articles of the initial       *)
(* stores are not featured), however the loads and the writes of the two     *)
(* calls interleave.                                                         *)
C27_TwoTogglesRestore ==
    \A p, q \in Procs : \A pk \in DOMAIN db :
        (p # q /\ Toggled(p, pk) /\ Toggled(q, pk)) =>
            db[pk].featured = DefaultArticle.featured

(* C28: the write of toggle_featured changes the featured column of its      *)
(* article and nothing else: status, published_at, slug, excerpt, author and *)
(* view_count of the stored article stay as they are, also when they have    *)
(* changed since the toggle loaded the article, and no other article changes.*)
C28_ToggleWritesFeaturedOnly ==
    [][\A p \in Procs : ToggleSaveStep(p) =>
          LET pk == req[p].pk
          IN  /\ DOMAIN db' = DOMAIN db
              /\ \A k \in DOMAIN db \ {pk} : db'[k] = db[k]
              /\ db'[pk].featured = ~req[p].instance.featured
              /\ \A f \in {"status", "published_at", "slug", "excerpt", "author",
                           "view_count"} : db'[pk][f] = db[pk][f]]_vars

\* a retrieval incremented view_count after the toggle had loaded the article
\* and answered before the toggle saved; the store holds the incremented
\* count and the toggled flag
C28_Witness ==
    \E p, q \in Procs : \E pk \in DOMAIN db :
        /\ Toggled(p, pk)
        /\ req[q].op = "retrieve" /\ req[q].pc = "done" /\ req[q].code = 200
        /\ req[q].pk = pk
        /\ req[q].instance.view_count = req[p].instance.view_count + 1
        /\ req[q].instance.featured # req[p].instance.featured
        /\ db[pk].view_count = req[q].instance.view_count
        /\ db[pk].featured = req[p].instance.featured

====
